---------------------------- MODULE Spec2Model ----------------------------
(***************************************************************************)
(* Model of the af-analyzer numeric core (core/preprocessing.py,           *)
(* core/tangent_analysis.py) and of its caller ui/analysis_chart.py.       *)
(*                                                                         *)
(* Floating-point numbers are modelled as exact rationals <<num, den>>     *)
(* with den > 0 and gcd(num, den) = 1; <<0, 0>> is NaN.  Arrays are        *)
(* sequences, so the 0-based index i of the source is i + 1 here.          *)
(***************************************************************************)
EXTENDS Integers, Sequences, FiniteSets, TLC

(***************************************************************************)
(* State.  A client calls analyze_channel directly or through              *)
(* perform_analysis (ui/analysis_chart.py), or calls one of the core       *)
(* operations on its own.                                                  *)
(***************************************************************************)
VARIABLES
  caller,          \* "direct", "perform_analysis" or "operation"
  temps, values,   \* the caller's arrays, passed as arguments
  values0,         \* contents of the caller's value array when the call began
  low_range, high_range, smooth_params, slope_offset, outlier_params,
  call,            \* the operation called on its own, with its other arguments
  ref,             \* arguments and outcome of an earlier call of analyze_channel
  pc,              \* position in analyze_channel / perform_analysis
  temps_clean, values_clean, outlier_mask, outlier_count,   \* locals of analyze_channel
  temps_smooth, values_smooth, derivatives, max_slope_idx,
  tangent, low_baseline, high_baseline,
  stages,          \* the stages executed so far, in order
  error,           \* the exception raised by analyze_channel, if any
  result,          \* the dict returned by analyze_channel, if any
  returned,        \* what perform_analysis returned to the display layer
  ret,             \* outcome of the operation called on its own
  loop,            \* locals of remove_outliers while its for loop runs
  session          \* st.session_state of the Streamlit application

inputs == <<caller, temps, values0, low_range, high_range, smooth_params, slope_offset,
            outlier_params, call>>

args == <<inputs, ref>>

locals == <<temps_clean, values_clean, outlier_mask, outlier_count, temps_smooth,
            values_smooth, derivatives, max_slope_idx, tangent, low_baseline,
            high_baseline>>

outcome == <<stages, error, result, returned, ret>>

vars == <<args, values, pc, locals, outcome, loop, session>>

(***************************************************************************)
(* Rational arithmetic (the float operations of numpy).                    *)
(***************************************************************************)
IAbs(i) == IF i < 0 THEN -i ELSE i

IMax(a, b) == IF a >= b THEN a ELSE b

IMin(a, b) == IF a <= b THEN a ELSE b

RECURSIVE Gcd(_, _)
Gcd(a, b) == IF b = 0 THEN a ELSE Gcd(b, a % b)

Norm(n, d) ==
  LET g == Gcd(IAbs(n), IAbs(d))
      s == IF d < 0 THEN -1 ELSE 1
  IN  <<(s * n) \div g, (s * d) \div g>>

NaN == <<0, 0>>

IsNaN(x) == x[2] = 0

R(i) == <<i, 1>>

RAdd(x, y) == Norm(x[1] * y[2] + y[1] * x[2], x[2] * y[2])

RSub(x, y) == Norm(x[1] * y[2] - y[1] * x[2], x[2] * y[2])

RMul(x, y) == Norm(x[1] * y[1], x[2] * y[2])

\* float division; the callers below never divide by zero
RDiv(x, y) == Norm(x[1] * y[2], x[2] * y[1])

RNeg(x) == <<-x[1], x[2]>>

RAbs(x) == <<IAbs(x[1]), x[2]>>

RLt(x, y) == x[1] * y[2] < y[1] * x[2]

RLe(x, y) == x[1] * y[2] <= y[1] * x[2]

RMax(x, y) == IF RLt(x, y) THEN y ELSE x

RMin(x, y) == IF RLt(y, x) THEN y ELSE x

\* np.asarray(values, dtype=float) of an integer sequence
AsFloat(s) == [i \in 1..Len(s) |-> R(s[i])]

RECURSIVE RSum(_, _)
RSum(s, k) == IF k = 0 THEN R(0) ELSE RAdd(RSum(s, k - 1), s[k])

\* ascending indices of a set of positions, as np.where(...)[0] gives them
RECURSIVE SetToSeq(_)
SetToSeq(S) ==
  IF S = {} THEN <<>>
  ELSE LET m == CHOOSE x \in S : \A y \in S : x <= y
       IN  <<m>> \o SetToSeq(S \ {m})

\* np.median of a non-empty sequence of rationals: the middle element of the
\* sorted sequence, or the mean of the two middle elements
KthSmallest(s, k) ==
  LET i == CHOOSE j \in 1..Len(s) :
             /\ Cardinality({m \in 1..Len(s) : RLt(s[m], s[j])}) < k
             /\ Cardinality({m \in 1..Len(s) : RLe(s[m], s[j])}) >= k
  IN  s[i]

Median(s) ==
  LET m == Len(s)
  IN  IF m % 2 = 1 THEN KthSmallest(s, (m + 1) \div 2)
      ELSE RDiv(RAdd(KthSmallest(s, m \div 2), KthSmallest(s, m \div 2 + 1)), R(2))

(***************************************************************************)
(* core/preprocessing.py: remove_outliers                                  *)
(***************************************************************************)
\* floor of the detector's window (preprocessing.py line 60)
MinWindow == 11

\* default max_iterations of remove_outliers
DefaultMaxIterations == 3

EffectiveWindow_nofloor(window) == IF window % 2 = 0 THEN window + 1 ELSE window

\* window = max(window, 11); if window % 2 == 0: window += 1
EffectiveWindow(window) ==
  LET w == IMax(window, MinWindow)
  IN  IF w % 2 = 0 THEN w + 1 ELSE w

\* the early-return guard, evaluated on the window as supplied
TooShort(n, window) == n < window + 2

\* pd.Series(working_values).rolling(window, center=True,
\*                                   min_periods=window // 2 + 1).median()
RollingMedian(wv, window) ==
  LET n == Len(wv)
      h == window \div 2
  IN  [i \in 1..n |->
         LET lo == IMax(1, i - h)
             hi == IMin(n, i + h)
         IN  IF hi - lo + 1 < h + 1 THEN NaN ELSE Median(SubSeq(wv, lo, hi))]

\* np.abs(working_values - rolling_med)
Deviations(wv, med) ==
  [i \in 1..Len(wv) |-> IF IsNaN(med[i]) THEN NaN ELSE RAbs(RSub(wv[i], med[i]))]

Boundary_none(window) == 0

\* boundary = max(window // 2, 3)
Boundary(window) == IMax(window \div 2, 3)

InnerPositions_all(n, boundary, combined) == 1..n

\* positions left after [:boundary] = False, [-boundary:] = False and
\* [combined_mask] = False
InnerPositions(n, boundary, combined) ==
  {i \in 1..n : i > boundary /\ i <= n - boundary /\ ~combined[i]}

\* np.nanmax(working_values) - np.nanmin(working_values)
DataRange(wv) ==
  LET hi == CHOOSE i \in 1..Len(wv) : \A j \in 1..Len(wv) : RLe(wv[j], wv[i])
      lo == CHOOSE i \in 1..Len(wv) : \A j \in 1..Len(wv) : RLe(wv[i], wv[j])
  IN  RSub(wv[hi], wv[lo])

MadScale_raw(valid_devs, wv) == Median(valid_devs)

\* mad = np.median(valid_devs), replaced by max(data_range * 0.01, 1.0) when 0
MadScale(valid_devs, wv) ==
  LET mad == Median(valid_devs)
  IN  IF mad[1] = 0 \/ IsNaN(mad)
      THEN RMax(RMul(DataRange(wv), <<1, 100>>), R(1))
      ELSE mad

Interp_hold(x, normal, orig) ==
  LET below == {i \in normal : i < x}
  IN  IF below = {} THEN orig[CHOOSE i \in normal : \A j \in normal : i <= j]
      ELSE orig[CHOOSE i \in below : \A j \in below : j <= i]

Interp_nearest(x, normal, orig) ==
  LET a == IMax(1, x - 1)
      b == IMin(Len(orig), x + 1)
  IN  RDiv(RAdd(orig[a], orig[b]), R(2))

\* np.interp(x, xp, fp) at one x; xp is the ascending set of unflagged
\* positions and fp the original values there
Interp(x, normal, orig) ==
  LET first == CHOOSE i \in normal : \A j \in normal : i <= j
      last  == CHOOSE i \in normal : \A j \in normal : j <= i
  IN  IF x <= first THEN orig[first]
      ELSE IF x >= last THEN orig[last]
      ELSE LET a == CHOOSE i \in normal : i < x /\ \A j \in normal : j < x => j <= i
               b == CHOOSE i \in normal : i > x /\ \A j \in normal : j > x => i <= j
           IN  RAdd(orig[a],
                    RMul(RSub(orig[b], orig[a]), <<x - a, b - a>>))

\* working_values = values.copy(); working_values[outlier_idx] = ...: the store
\* goes to the copy, the caller's array keeps its contents
StoreWorking_alias(vals, new) == [values |-> new, working |-> new]

StoreWorking(vals, new) == [values |-> vals, working |-> new]

\* one iteration of the for loop (lines 68-109); st = [values, working, mask]
OutlierPass(st, window, threshold) ==
  LET wv    == st.working
      n     == Len(wv)
      med   == RollingMedian(wv, window)
      dev   == Deviations(wv, med)
      bnd   == Boundary(window)
      inner == {i \in InnerPositions(n, bnd, st.mask) : ~IsNaN(dev[i])}
      idx   == SetToSeq(inner)
      valid_devs == [k \in 1..Len(idx) |-> dev[idx[k]]]
  IN  IF inner = {} THEN [stop |-> TRUE, st |-> st]
      ELSE
        LET mad == MadScale(valid_devs, wv)
            outlier_threshold == RMul(threshold, mad)
            new == {i \in 1..n : /\ ~IsNaN(dev[i])
                                 /\ RLt(outlier_threshold, dev[i])
                                 /\ i > bnd /\ i <= n - bnd
                                 /\ ~st.mask[i]}
        IN  IF new = {} THEN [stop |-> TRUE, st |-> st]
            ELSE
              LET combined == [i \in 1..n |-> st.mask[i] \/ i \in new]
                  normal   == {i \in 1..n : ~combined[i]}
                  interp   == [i \in 1..n |->
                                 IF combined[i] THEN Interp(i, normal, st.values)
                                 ELSE wv[i]]
                  arr      == IF Cardinality(normal) >= 2
                              THEN StoreWorking(st.values, interp)
                              ELSE [values |-> st.values, working |-> wv]
              IN  [stop |-> FALSE,
                   st   |-> [values |-> arr.values, working |-> arr.working,
                             mask |-> combined]]

\* mad = np.median(valid_devs) and its substitute (lines 86-89); valid is the
\* set of positions whose deviation is in valid_devs
PassScale(dev, valid, wv) ==
  IF valid = {} THEN [median |-> NaN, mad |-> NaN]
  ELSE LET idx == SetToSeq(valid)
           valid_devs == [k \in 1..Len(idx) |-> dev[idx[k]]]
       IN  [median |-> Median(valid_devs), mad |-> MadScale(valid_devs, wv)]

\* new_mask = deviations > outlier_threshold, cleared at the boundary and at
\* the positions of combined_mask (lines 91-96)
PassFlags(dev, n, boundary, combined, outlier_threshold) ==
  {i \in 1..n : /\ ~IsNaN(dev[i])
                /\ RLt(outlier_threshold, dev[i])
                /\ i > boundary /\ i <= n - boundary
                /\ ~combined[i]}

\* the locals of one iteration of the for loop (lines 68-96); new_mask is
\* empty when the iteration breaks at line 84, before it has flagged anything
PassLocals(st, window, threshold) ==
  LET n   == Len(st.working)
      bnd == Boundary(window)
  IN  CHOOSE r \in UNION {
        {[deviations |-> dev,
          inner_mask |-> InnerPositions(n, bnd, st.mask),
          median     |-> sc.median,
          mad        |-> sc.mad,
          new_mask   |-> IF IsNaN(sc.mad) THEN {}
                         ELSE PassFlags(dev, n, bnd, st.mask, RMul(threshold, sc.mad))] :
           sc \in {PassScale(dev,
                             {i \in InnerPositions(n, bnd, st.mask) : ~IsNaN(dev[i])},
                             st.working)}} :
        dev \in {Deviations(st.working, RollingMedian(st.working, window))}} : TRUE

LoopContinues_inclusive(iteration, max_iterations) == iteration <= max_iterations

\* for iteration in range(max_iterations): iteration counts the passes made
LoopContinues(iteration, max_iterations) == iteration < max_iterations

\* for iteration in range(max_iterations): ... break
RECURSIVE OutlierLoop(_, _, _, _, _)
OutlierLoop(st, iteration, window, threshold, max_iterations) ==
  IF iteration >= max_iterations THEN st
  ELSE LET p == OutlierPass(st, window, threshold)
       IN  IF p.stop THEN st
           ELSE OutlierLoop(p.st, iteration + 1, window, threshold, max_iterations)

ZeroMask_stale(n) ==
  IF Len(outlier_mask) = n THEN outlier_mask ELSE [i \in 1..n |-> FALSE]

\* combined_mask = np.zeros(n, dtype=bool): a fresh all-false mask per call
ZeroMask(n) == [i \in 1..n |-> FALSE]

\* remove_outliers(temps, values, window, threshold, max_iterations).
\* err is "ok" or the error raised; values is the caller's array after the call.
remove_outliers(t, v, window, threshold, max_iterations) ==
  IF Len(t) # Len(v)
  THEN [err |-> "LengthMismatch", temps |-> <<>>, values_clean |-> <<>>,
        mask |-> <<>>, values |-> v]
  ELSE
    LET n == Len(v)
    IN  IF TooShort(n, window)
        THEN [err |-> "ok", temps |-> t, values_clean |-> v,
              mask |-> [i \in 1..n |-> FALSE], values |-> v]
        ELSE
          LET st == OutlierLoop([values |-> v, working |-> v,
                                 mask |-> ZeroMask(n)],
                                0, EffectiveWindow(window), threshold, max_iterations)
          IN  [err |-> "ok", temps |-> t, values_clean |-> st.working,
               mask |-> st.mask, values |-> st.values]

(***************************************************************************)
(* core/preprocessing.py: smooth_data                                      *)
(***************************************************************************)
OddWindow_asis(window_length) == window_length

\* window_length corrected to the next odd number
OddWindow(window_length) ==
  IF window_length % 2 = 0 THEN window_length + 1 ELSE window_length

SavgolFilter_valid(v, w, p) ==
  [pos \in 1..(Len(v) - w + 1) |->
     RDiv(RSum([i \in 1..w |-> v[pos + i - 1]], w), R(w))]

\* scipy.signal.savgol_filter(values, w, p), mode="interp", for the polynomial
\* orders 0 (window mean), 1 (least-squares line) and w - 1 (the polynomial
\* interpolates the window, so the filter returns its input).  Position t is
\* fitted on the window of w points centred at t, or on the first / last w
\* points when t is within w // 2 of an end.
SavgolFilter(v, w, p) ==
  LET n == Len(v)
      h == w \div 2
      c == h + 1
      S == (w * (w * w - 1)) \div 12
      start(pos) == IMax(1, IMin(pos - h, n - w + 1))
      mean(pos)  == RDiv(RSum([i \in 1..w |-> v[start(pos) + i - 1]], w), R(w))
      line(pos)  == LET j == pos - start(pos) + 1
                  IN  RSum([i \in 1..w |->
                              RMul(v[start(pos) + i - 1],
                                   RAdd(<<1, w>>, Norm((i - c) * (j - c), S)))], w)
  IN  CASE p = w - 1 -> v
        [] p = 0     -> [pos \in 1..n |-> mean(pos)]
        [] p = 1     -> [pos \in 1..n |-> line(pos)]

smooth_data_clamp(t, v, window_length, polyorder) ==
  LET w == OddWindow(window_length)
  IN  IF Len(t) # Len(v)
      THEN [err |-> "LengthMismatch", temps |-> <<>>, values |-> <<>>]
      ELSE IF Len(t) = 0
      THEN [err |-> "ok", temps |-> <<>>, values |-> <<>>]
      ELSE IF w <= polyorder
      THEN [err |-> "InvalidParameter:window<=polyorder", temps |-> <<>>, values |-> <<>>]
      ELSE IF w > Len(v)
      THEN [err |-> "ok", temps |-> t, values |-> v]
      ELSE [err |-> "ok", temps |-> t, values |-> SavgolFilter(v, w, polyorder)]

\* smooth_data(temps, values, window_length, polyorder)
smooth_data(t, v, window_length, polyorder) ==
  LET w == OddWindow(window_length)
  IN  IF Len(t) # Len(v)
      THEN [err |-> "LengthMismatch", temps |-> <<>>, values |-> <<>>]
      ELSE IF Len(t) = 0
      THEN [err |-> "ok", temps |-> <<>>, values |-> <<>>]
      ELSE IF w <= polyorder
      THEN [err |-> "InvalidParameter:window<=polyorder", temps |-> <<>>, values |-> <<>>]
      ELSE IF w > Len(v)
      THEN [err |-> "InvalidParameter:window>length", temps |-> <<>>, values |-> <<>>]
      ELSE [err |-> "ok", temps |-> t, values |-> SavgolFilter(v, w, polyorder)]

(***************************************************************************)
(* core/tangent_analysis.py                                                *)
(***************************************************************************)
Gradient_index(v, t) ==
  LET n == Len(v)
  IN  [i \in 1..n |->
         IF i = 1 THEN RSub(v[2], v[1])
         ELSE IF i = n THEN RSub(v[n], v[n - 1])
         ELSE RDiv(RSub(v[i + 1], v[i - 1]), R(2))]

\* np.gradient(values, temps): second-order central differences for
\* non-uniform spacing inside, first-order one-sided differences at the ends
Gradient(v, t) ==
  LET n == Len(v)
  IN  [i \in 1..n |->
         IF i = 1 THEN RDiv(RSub(v[2], v[1]), R(t[2] - t[1]))
         ELSE IF i = n
         THEN RDiv(RSub(v[n], v[n - 1]), R(t[n] - t[n - 1]))
         ELSE LET hs == t[i] - t[i - 1]
                  hd == t[i + 1] - t[i]
              IN  RAdd(RAdd(RMul(v[i - 1], Norm(-hd, hs * (hd + hs))),
                            RMul(v[i], Norm(hd - hs, hd * hs))),
                       RMul(v[i + 1], Norm(hs, hd * (hd + hs))))]

\* compute_derivative(temps, values)
compute_derivative(t, v) ==
  IF Len(t) # Len(v) THEN [err |-> "LengthMismatch", derivatives |-> <<>>]
  ELSE IF Len(t) < 2 THEN [err |-> "InsufficientPoints", derivatives |-> <<>>]
  ELSE [err |-> "ok", derivatives |-> Gradient(v, t)]

ArgMaxAbs_last(d) ==
  LET n == Len(d)
      i == CHOOSE k \in 1..n :
             /\ \A j \in 1..n : RLe(RAbs(d[j]), RAbs(d[k]))
             /\ \A j \in (k + 1)..n : RLt(RAbs(d[j]), RAbs(d[k]))
  IN  i - 1

\* int(np.argmax(np.abs(derivatives))): 0-based index of the first maximum
ArgMaxAbs(d) ==
  LET n == Len(d)
      i == CHOOSE k \in 1..n :
             /\ \A j \in 1..n : RLe(RAbs(d[j]), RAbs(d[k]))
             /\ \A j \in 1..(k - 1) : RLt(RAbs(d[j]), RAbs(d[k]))
  IN  i - 1

find_max_slope_index_noclip(d, offset) ==
  IF Len(d) = 0 THEN [err |-> "EmptyInput", idx |-> 0]
  ELSE [err |-> "ok", idx |-> ArgMaxAbs(d) + offset]

\* find_max_slope_index(derivatives, offset); idx is 0-based as in the source
find_max_slope_index(d, offset) ==
  IF Len(d) = 0 THEN [err |-> "EmptyInput", idx |-> 0]
  ELSE [err |-> "ok",
        idx |-> IMax(0, IMin(ArgMaxAbs(d) + offset, Len(d) - 1))]

\* scipy.stats.linregress(x, y) on two or more points with distinct x:
\* slope = ssxym / ssxm, intercept = ymean - slope * xmean
Linregress(xs, ys) ==
  LET k     == Len(xs)
      xmean == RDiv(RSum([i \in 1..k |-> R(xs[i])], k), R(k))
      ymean == RDiv(RSum(ys, k), R(k))
      ssxm  == RSum([i \in 1..k |-> RMul(RSub(R(xs[i]), xmean), RSub(R(xs[i]), xmean))], k)
      ssxym == RSum([i \in 1..k |-> RMul(RSub(R(xs[i]), xmean), RSub(ys[i], ymean))], k)
      slope == RDiv(ssxym, ssxm)
  IN  [slope |-> slope, intercept |-> RSub(ymean, RMul(slope, xmean))]

NoLine == [slope |-> NaN, intercept |-> NaN]

fit_baseline_exclusive(t, v, t_start, t_end) ==
  LET sel == SetToSeq({i \in 1..Len(t) : t[i] > t_start /\ t[i] <= t_end})
  IN  IF Len(t) # Len(v) THEN [err |-> "IndexError", line |-> NoLine]
      ELSE IF Len(sel) = 0 THEN [err |-> "EmptyRange", line |-> NoLine]
      ELSE IF Len(sel) < 2 THEN [err |-> "InsufficientPoints", line |-> NoLine]
      ELSE [err |-> "ok",
            line |-> Linregress([k \in 1..Len(sel) |-> t[sel[k]]],
                                [k \in 1..Len(sel) |-> v[sel[k]]])]

fit_baseline_upto(t, v, t_start, t_end) ==
  LET sel == SetToSeq({i \in 1..Len(t) : t[i] >= t_start /\ t[i] < t_end})
  IN  IF Len(t) # Len(v) THEN [err |-> "IndexError", line |-> NoLine]
      ELSE IF Len(sel) = 0 THEN [err |-> "EmptyRange", line |-> NoLine]
      ELSE IF Len(sel) < 2 THEN [err |-> "InsufficientPoints", line |-> NoLine]
      ELSE [err |-> "ok",
            line |-> Linregress([k \in 1..Len(sel) |-> t[sel[k]]],
                                [k \in 1..Len(sel) |-> v[sel[k]]])]

fit_baseline_all(t, v, t_start, t_end) ==
  LET sel == SetToSeq({i \in 1..Len(t) : t[i] >= t_start /\ t[i] <= t_end})
  IN  IF Len(t) # Len(v) THEN [err |-> "IndexError", line |-> NoLine]
      ELSE IF Len(sel) = 0 THEN [err |-> "EmptyRange", line |-> NoLine]
      ELSE IF Len(sel) < 2 THEN [err |-> "InsufficientPoints", line |-> NoLine]
      ELSE [err |-> "ok", line |-> Linregress(t, v)]

\* fit_baseline(temps, values, t_start, t_end).  The function does not compare
\* the lengths: values[mask] with a mask of another length is numpy's IndexError.
fit_baseline(t, v, t_start, t_end) ==
  LET sel == SetToSeq({i \in 1..Len(t) : t[i] >= t_start /\ t[i] <= t_end})
  IN  IF Len(t) # Len(v) THEN [err |-> "IndexError", line |-> NoLine]
      ELSE IF Len(sel) = 0 THEN [err |-> "EmptyRange", line |-> NoLine]
      ELSE IF Len(sel) < 2 THEN [err |-> "InsufficientPoints", line |-> NoLine]
      ELSE [err |-> "ok",
            line |-> Linregress([k \in 1..Len(sel) |-> t[sel[k]]],
                                [k \in 1..Len(sel) |-> v[sel[k]]])]

compute_tangent_at_point_wrap(t, v, d, index) ==
  IF ~(0 - Len(t) <= index /\ index < Len(t)) THEN [err |-> "OutOfBounds", line |-> NoLine]
  ELSE IF Len(t) # Len(v) \/ Len(t) # Len(d)
  THEN [err |-> "LengthMismatch", line |-> NoLine]
  ELSE LET k     == IF index < 0 THEN index + Len(t) ELSE index
           slope == d[k + 1]
       IN  [err |-> "ok",
            line |-> [slope |-> slope,
                      intercept |-> RSub(v[k + 1], RMul(slope, R(t[k + 1])))]]

\* compute_tangent_at_point(temps, values, derivatives, index), index 0-based
compute_tangent_at_point(t, v, d, index) ==
  IF ~(0 <= index /\ index < Len(t)) THEN [err |-> "OutOfBounds", line |-> NoLine]
  ELSE IF Len(t) # Len(v) \/ Len(t) # Len(d)
  THEN [err |-> "LengthMismatch", line |-> NoLine]
  ELSE LET slope == d[index + 1]
       IN  [err |-> "ok",
            line |-> [slope |-> slope,
                      intercept |-> RSub(v[index + 1],
                                         RMul(slope, R(t[index + 1])))]]

\* np.isclose(a, b): |a - b| <= atol + rtol * |b| with rtol = 1e-5, atol = 1e-8
RtolInv == 100000

AtolInv == 100000000

\* (the product with |b| is taken on its whole and fractional parts apart,
\* which keeps the exact comparison within 32-bit integers)
IsClose(a, b) ==
  LET d == RAbs(RSub(a, b))
      m == RAbs(b)
      k == AtolInv \div RtolInv
  IN  d[1] <= (d[2] + k * d[2] * (m[1] \div m[2])
                    + (k * d[2] * (m[1] % m[2])) \div m[2]) \div AtolInv

find_intersection_zero(slope1, intercept1, slope2, intercept2) ==
  IF IsClose(slope1, slope2) THEN R(0)
  ELSE RDiv(RSub(intercept2, intercept1), RSub(slope1, slope2))

find_intersection_swapped(slope1, intercept1, slope2, intercept2) ==
  IF IsClose(slope1, slope2) THEN NaN
  ELSE RDiv(RSub(intercept1, intercept2), RSub(slope1, slope2))

\* find_intersection(slope1, intercept1, slope2, intercept2); NaN when parallel
find_intersection(slope1, intercept1, slope2, intercept2) ==
  IF IsClose(slope1, slope2) THEN NaN
  ELSE RDiv(RSub(intercept2, intercept1), RSub(slope1, slope2))

MinPoints_eleven == 10 + 1

\* if len(temps) < 10: raise
MinPoints == 10

\* defaults of analyze_channel's outlier_params, as perform_analysis relies on
DefaultOutlierWindow == 5

DefaultThreshold == R(5)

NoError == [stage |-> "none", kind |-> "ok"]

NoResult == [tag |-> "none"]

NotReturned == [tag |-> "pending"]

\* the statements of analyze_channel in program order
StageOrder == <<"validate", "remove_outliers", "smooth", "derivative", "max_slope",
                "tangent", "low_baseline", "high_baseline", "intersect">>

\* analyze_channel has no try/except: a stage that raises ends the call
NextPc_swallow(err, next) == next

NextPc(err, next) == IF err = "ok" THEN next ELSE "raised"

Step(stage, err, next) ==
  /\ stages' = Append(stages, stage)
  /\ pc' = NextPc(err, next)
  /\ error' = IF err = "ok" THEN error ELSE [stage |-> stage, kind |-> err]

\* lines 290-297
Validate ==
  /\ pc = "validate"
  /\ Step("validate",
          IF Len(temps) # Len(values) THEN "LengthMismatch"
          ELSE IF Len(temps) < MinPoints THEN "InsufficientPoints"
          ELSE "ok",
          "remove_outliers")
  /\ UNCHANGED <<args, loop, session, values, locals, result, returned, ret>>

\* lines 299-304
StageRemoveOutliers ==
  /\ pc = "remove_outliers"
  /\ \E r \in {remove_outliers(temps, values, outlier_params[1], outlier_params[2],
                              DefaultMaxIterations)} :
         /\ values' = r.values
         /\ IF r.err = "ok"
            THEN /\ temps_clean' = r.temps
                 /\ values_clean' = r.values_clean
                 /\ outlier_mask' = r.mask
                 /\ outlier_count' = Cardinality({i \in 1..Len(r.mask) : r.mask[i]})
            ELSE UNCHANGED <<temps_clean, values_clean, outlier_mask, outlier_count>>
         /\ Step("remove_outliers", r.err, "smooth")
  /\ UNCHANGED <<args, loop, session, temps_smooth, values_smooth, derivatives, max_slope_idx,
                 tangent, low_baseline, high_baseline, result, returned, ret>>

\* lines 306-308
StageSmooth ==
  /\ pc = "smooth"
  /\ \E r \in {smooth_data(temps_clean, values_clean, smooth_params[1],
                         smooth_params[2])} :
         /\ IF r.err = "ok"
            THEN temps_smooth' = r.temps /\ values_smooth' = r.values
            ELSE UNCHANGED <<temps_smooth, values_smooth>>
         /\ Step("smooth", r.err, "derivative")
  /\ UNCHANGED <<args, loop, session, values, temps_clean, values_clean, outlier_mask, outlier_count,
                 derivatives, max_slope_idx, tangent, low_baseline, high_baseline, result, returned, ret>>

\* line 311
StageDerivative ==
  /\ pc = "derivative"
  /\ \E r \in {compute_derivative(temps_smooth, values_smooth)} :
         /\ IF r.err = "ok" THEN derivatives' = r.derivatives
            ELSE UNCHANGED derivatives
         /\ Step("derivative", r.err, "max_slope")
  /\ UNCHANGED <<args, loop, session, values, temps_clean, values_clean, outlier_mask, outlier_count,
                 temps_smooth, values_smooth,
                 max_slope_idx, tangent, low_baseline, high_baseline, result, returned, ret>>

\* lines 314-315
StageMaxSlope ==
  /\ pc = "max_slope"
  /\ \E r \in {find_max_slope_index(derivatives, slope_offset)} :
         /\ IF r.err = "ok" THEN max_slope_idx' = r.idx
            ELSE UNCHANGED max_slope_idx
         /\ Step("max_slope", r.err, "tangent")
  /\ UNCHANGED <<args, loop, session, values, temps_clean, values_clean, outlier_mask, outlier_count,
                 temps_smooth, values_smooth,
                 derivatives, tangent, low_baseline, high_baseline, result, returned, ret>>

\* lines 318-320
StageTangent ==
  /\ pc = "tangent"
  /\ \E r \in {compute_tangent_at_point(temps_smooth, values_smooth, derivatives,
                                      max_slope_idx)} :
         /\ IF r.err = "ok" THEN tangent' = r.line ELSE UNCHANGED tangent
         /\ Step("tangent", r.err, "low_baseline")
  /\ UNCHANGED <<args, loop, session, values, temps_clean, values_clean, outlier_mask, outlier_count,
                 temps_smooth, values_smooth,
                 derivatives, max_slope_idx, low_baseline, high_baseline, result,
                 returned, ret>>

\* lines 323-324
StageLowBaseline ==
  /\ pc = "low_baseline"
  /\ \E r \in {fit_baseline(temps_smooth, values_smooth, low_range[1], low_range[2])} :
         /\ IF r.err = "ok" THEN low_baseline' = r.line ELSE UNCHANGED low_baseline
         /\ Step("low_baseline", r.err, "high_baseline")
  /\ UNCHANGED <<args, loop, session, values, temps_clean, values_clean, outlier_mask, outlier_count,
                 temps_smooth, values_smooth,
                 derivatives, max_slope_idx, tangent, high_baseline, result, returned, ret>>

\* lines 327-328
StageHighBaseline ==
  /\ pc = "high_baseline"
  /\ \E r \in {fit_baseline(temps_smooth, values_smooth, high_range[1], high_range[2])} :
         /\ IF r.err = "ok" THEN high_baseline' = r.line ELSE UNCHANGED high_baseline
         /\ Step("high_baseline", r.err, "intersect")
  /\ UNCHANGED <<args, loop, session, values, temps_clean, values_clean, outlier_mask, outlier_count,
                 temps_smooth, values_smooth,
                 derivatives, max_slope_idx, tangent, low_baseline, result, returned, ret>>

\* lines 331-342: both intersections, then the result dict
StageIntersect ==
  /\ pc = "intersect"
  /\ result' = [tag |-> "result",
                As |-> find_intersection(tangent.slope, tangent.intercept,
                                         low_baseline.slope, low_baseline.intercept),
                Af_tan |-> find_intersection(tangent.slope, tangent.intercept,
                                             high_baseline.slope, high_baseline.intercept),
                max_slope_temp |-> temps_smooth[max_slope_idx + 1],
                low_baseline |-> low_baseline,
                high_baseline |-> high_baseline,
                tangent |-> tangent,
                outlier_count |-> outlier_count]
  /\ stages' = Append(stages, "intersect")
  /\ pc' = "done"
  /\ UNCHANGED <<args, loop, session, values, locals, error, returned, ret>>

(***************************************************************************)
(* ui/analysis_chart.py: perform_analysis                                  *)
(***************************************************************************)
\* default window of remove_outliers (preprocessing.py line 17)
RemoveOutliersDefaultWindow == 11

ReturnedNone == [tag |-> "None"]

\* lines 106-118: the plotting data is recomputed with remove_outliers' own
\* defaults and attached to the dict analyze_channel returned
PlotData ==
  /\ pc = "done"
  /\ caller = "perform_analysis"
  /\ \E r1 \in {remove_outliers(temps, values, RemoveOutliersDefaultWindow,
                                DefaultThreshold, DefaultMaxIterations)} :
     \E r2 \in {smooth_data(r1.temps, r1.values_clean, smooth_params[1],
                            smooth_params[2])} :
         /\ values' = r1.values
         /\ IF r1.err = "ok" /\ r2.err = "ok"
            THEN /\ returned' = [tag |-> "dict",
                                 analysis |-> result,
                                 temps_smooth |-> r2.temps,
                                 values_smooth |-> r2.values,
                                 temps_raw |-> temps,
                                 values_raw |-> r1.values,
                                 outlier_mask |-> r1.mask]
                 /\ pc' = "pa_done"
            ELSE /\ returned' = ReturnedNone
                 /\ pc' = "pa_failed"
  /\ UNCHANGED <<args, loop, session, locals, stages, error, result, ret>>

\* lines 120-122: except Exception -> st.error(...); return None
Catch ==
  /\ pc = "raised"
  /\ caller = "perform_analysis"
  /\ returned' = ReturnedNone
  /\ pc' = "pa_failed"
  /\ UNCHANGED <<args, loop, session, values, locals, stages, error, result, ret>>

(***************************************************************************)
(* Inputs                                                                  *)
(***************************************************************************)
\* longest series analysed
MaxLen == 13

\* value written by a spike
SpikeValue == 60

\* rise of the curve per index step inside the transformation
RampStep == 2

Lens == {9, 10, MaxLen - 1, MaxLen}

\* ascending temperatures 1, 2, ...; with gap > 0 the spacing doubles once,
\* after position gap
TempGrid(n, gap) == [i \in 1..n |-> IF gap > 0 /\ i > gap THEN i + 1 ELSE i]

Gaps == {0, 6}

\* flat up to position a, rising by RampStep per point up to b, flat after
Curve(n, a, b) == [i \in 1..n |-> RampStep * (IMax(a, IMin(i, b)) - a)]

\* flat, knee, sigmoid-like
Shapes == {<<1, 1>>, <<1, 6>>, <<4, 8>>}

\* position overwritten by a spike (0: none)
SpikeAt == {0, 4, 7}

Series(n, shape, sp) ==
  [i \in 1..n |-> IF i = sp THEN R(SpikeValue) ELSE R(Curve(n, shape[1], shape[2])[i])]

LowRanges == {<<1, 4>>, <<2, 2>>, <<20, 30>>}

HighRanges == {<<8, 12>>, <<10, 10>>, <<0, 0>>}

SmoothParams == {<<3, 1>>, <<4, 0>>, <<3, 3>>, <<51, 3>>}

Offsets == {0, -20, 2, 20}

\* every pair of ranges under one smoothing, and every smoothing and offset
\* under one pair of ranges
ParamSets ==
  {[low |-> l, high |-> h, smooth |-> <<3, 1>>, offset |-> 0] :
     l \in LowRanges, h \in HighRanges}
  \cup {[low |-> <<1, 4>>, high |-> <<8, 12>>, smooth |-> sm, offset |-> o] :
          sm \in SmoothParams, o \in Offsets}

\* what a direct caller passes and perform_analysis cannot: arrays of
\* different lengths, and outlier_params other than the default
DirectParamSets ==
  {[low |-> <<1, 4>>, high |-> <<8, 12>>, smooth |-> sm, offset |-> 0] :
     sm \in SmoothParams}

DirectOutlierParams == <<11, R(1)>>

Unset == <<>>

NoCall == [op |-> "none"]

NoRef == [tag |-> "none"]

NoRet == [err |-> "pending"]

NoLoop == [at |-> "none"]

\* st.session_state of a new browser session: no key is set
NoSession == [k \in {} |-> TRUE]

InitLocals ==
  /\ temps_clean = Unset /\ values_clean = Unset /\ outlier_mask = Unset
  /\ outlier_count = 0 /\ temps_smooth = Unset /\ values_smooth = Unset /\ derivatives = Unset /\ max_slope_idx = 0
  /\ tangent = NoLine /\ low_baseline = NoLine /\ high_baseline = NoLine
  /\ stages = <<>> /\ error = NoError /\ result = NoResult /\ returned = NotReturned
  /\ ret = NoRet
  /\ loop = NoLoop /\ session = NoSession

InitArgs(c, n, extra, gap, shape, sp, ps, op) ==
  /\ caller = c
  /\ temps = TempGrid(n + extra, gap)
  /\ values = Series(n, shape, sp)
  /\ values0 = Series(n, shape, sp)
  /\ low_range = ps.low
  /\ high_range = ps.high
  /\ smooth_params = ps.smooth
  /\ slope_offset = ps.offset
  /\ outlier_params = op
  /\ call = NoCall
  /\ ref = NoRef

\* perform_analysis passes the two columns of one grouped frame and leaves
\* outlier_params at its default; a direct call may do otherwise
Init ==
  /\ \E n \in Lens, gap \in Gaps, shape \in Shapes, sp \in SpikeAt :
       \/ \E ps \in ParamSets :
            InitArgs("perform_analysis", n, 0, gap, shape, sp, ps,
                     <<DefaultOutlierWindow, DefaultThreshold>>)
       \/ \E ps \in DirectParamSets, extra \in {0, 1} :
            InitArgs("direct", n, extra, gap, shape, sp, ps, DirectOutlierParams)
  /\ pc = "validate"
  /\ InitLocals

Next ==
  \/ Validate
  \/ StageRemoveOutliers
  \/ StageSmooth
  \/ StageDerivative
  \/ StageMaxSlope
  \/ StageTangent
  \/ StageLowBaseline
  \/ StageHighBaseline
  \/ StageIntersect
  \/ PlotData
  \/ Catch

Spec == Init /\ [][Next]_vars

(***************************************************************************)
(* Repeated direct calls of analyze_channel (specification SpecReentrant). *)
(* A new call finds the variables of the model as the previous call left   *)
(* them; only what the call itself assigns is its own.                     *)
(***************************************************************************)
CurArgs ==
  <<temps, values0, low_range, high_range, smooth_params, slope_offset, outlier_params>>

ReentrantParamSets ==
  {[low |-> l, high |-> <<8, 12>>, smooth |-> sm, offset |-> 0] :
     l \in {<<1, 4>>, <<2, 2>>}, sm \in {<<3, 1>>, <<3, 3>>}}

ReentrantInputs ==
  {[n |-> MaxLen, sp |-> sp, ps |-> ps] : sp \in {0, 7}, ps \in ReentrantParamSets}
  \cup {[n |-> 9, sp |-> 0, ps |-> [low |-> <<1, 4>>, high |-> <<8, 12>>,
                                     smooth |-> <<3, 1>>, offset |-> 0]]}

InitReentrant ==
  /\ \E in \in ReentrantInputs :
       InitArgs("direct", in.n, 0, 0, <<4, 8>>, in.sp, in.ps,
                <<DefaultOutlierWindow, DefaultThreshold>>)
  /\ pc = "validate"
  /\ InitLocals

\* the client calls analyze_channel again, with arrays it has just filled; it
\* may keep the outcome of the call that ended to compare a later one with
Recall ==
  /\ pc \in {"done", "raised"}
  /\ ref' \in {ref, [tag |-> "call", args |-> CurArgs, error |-> error, result |-> result]}
  /\ \E in \in ReentrantInputs :
       /\ temps' = TempGrid(in.n, 0)
       /\ values' = Series(in.n, <<4, 8>>, in.sp)
       /\ values0' = Series(in.n, <<4, 8>>, in.sp)
       /\ low_range' = in.ps.low
       /\ high_range' = in.ps.high
       /\ smooth_params' = in.ps.smooth
       /\ slope_offset' = in.ps.offset
  /\ pc' = "validate"
  /\ stages' = <<>>
  /\ error' = NoError
  /\ result' = NoResult
  /\ UNCHANGED <<caller, outlier_params, call, locals, returned, ret, loop, session>>

NextReentrant ==
  \/ Validate
  \/ StageRemoveOutliers
  \/ StageSmooth
  \/ StageDerivative
  \/ StageMaxSlope
  \/ StageTangent
  \/ StageLowBaseline
  \/ StageHighBaseline
  \/ StageIntersect
  \/ Recall

SpecReentrant == InitReentrant /\ [][NextReentrant]_vars

(***************************************************************************)
(* Direct calls of the core operations (specification SpecOps): a client   *)
(* calls one operation with arrays of its own, of any lengths.             *)
(***************************************************************************)
OpLens == {0, 1, 2, 5, 10, MaxLen - 2, MaxLen - 1, MaxLen, MaxLen + 1}
OpExtras == {-1, 0, 1}
OpSpikeAt == {0, 6, 7}
OpWindows == {5, 11, 12}
OpThresholds == {R(1), R(5)}
OpMaxIterations == {0, 1, DefaultMaxIterations}
OpRanges == {<<1, 4>>, <<2, 2>>, <<20, 30>>, <<4, 5>>, <<5, 4>>, <<0, 1>>, <<3, 8>>}
OpIndexes == {-2, -1, 0, 1, 5, 9, 10, MaxLen - 1, MaxLen}

\* <<window_length, polyorder>> of the calls of smooth_data
SmoothCalls ==
  SmoothParams \cup {<<0, 0>>, <<2, 1>>, <<2, 2>>, <<4, 1>>, <<4, 4>>, <<4, 5>>,
                     <<5, 0>>, <<5, 1>>, <<6, 1>>, <<12, 1>>, <<12, 0>>}

\* values[p : p + k] = z, positions counted from 1
Overwrite(v, p, k, z) ==
  [i \in 1..Len(v) |-> IF p <= i /\ i < p + k THEN R(z) ELSE v[i]]

\* temperature grids with every step different, and lines value = m * t + b
TempSquares(n) == [i \in 1..n |-> (i * (i + 1)) \div 2]

OpGrids(n) == {TempGrid(n, 0), TempGrid(n, 2), TempGrid(n, 6), TempSquares(n)}

Lines == {[m |-> m, b |-> b] : m \in {R(0), R(2), R(-3), <<1, 2>>}, b \in {0, 5}}

Line(t, ln) == [i \in 1..Len(t) |-> RAdd(RMul(ln.m, R(t[i])), R(ln.b))]

\* derivative sequences (with ties, sign changes and zeros) and offsets
DerivLevels == {R(-2), R(-1), R(0), R(1), <<3, 2>>}

DerivSeqs ==
  UNION {[1..n -> DerivLevels] : n \in 0..3}
  \cup {<<<<1, 10>>, <<1, 2>>, <<6, 5>>, <<4, 5>>, <<3, 10>>>>,
        <<<<1, 10>>, <<-1, 2>>, <<-6, 5>>, <<4, 5>>, <<6, 5>>>>}

OpOffsets == {-20, -1, 0, 1, 2, 20}

\* (slope1, slope2) of the calls of find_intersection: crossing, equal, and
\* nearly equal slopes on both sides of the tolerance of np.isclose
SlopePairs ==
  {<<R(2), R(-1)>>, <<R(1), R(2)>>, <<R(2), R(1)>>, <<R(0), R(3)>>,
   <<<<1, 2>>, <<-1, 2>>>>, <<R(1), R(1)>>, <<R(2), R(2)>>, <<R(0), R(0)>>,
   <<<<100001, 100000>>, R(1)>>, <<<<50001, 50000>>, R(1)>>,
   <<<<200001, 100000>>, R(2)>>, <<<<1, 1000>>, R(0)>>,
   <<<<99901, 99900>>, R(1)>>, <<R(1), <<99901, 99900>>>>}

Intercepts == {R(0), R(10), R(25), R(-5)}

OpPairs == {<<n, e>> \in OpLens \X OpExtras : n + e >= 0}

InitCall(c, t, v) ==
  /\ caller = "operation"
  /\ call = c
  /\ temps = t
  /\ values = v
  /\ values0 = v
  /\ low_range = <<0, 0>> /\ high_range = <<0, 0>> /\ smooth_params = <<3, 1>>
  /\ slope_offset = 0
  /\ outlier_params = <<DefaultOutlierWindow, DefaultThreshold>>
  /\ ref = NoRef
  /\ pc = "call"

InitOps ==
  /\ InitLocals
  /\ \/ \E ne \in OpPairs, sp \in OpSpikeAt, w \in OpWindows, th \in OpThresholds,
           mi \in OpMaxIterations :
          InitCall([op |-> "remove_outliers", window |-> w, threshold |-> th,
                    max_iterations |-> mi],
                   TempGrid(ne[1] + ne[2], 0), Series(ne[1], <<4, 8>>, sp))
     \/ \E ne \in OpPairs, sm \in SmoothCalls :
          InitCall([op |-> "smooth_data", window_length |-> sm[1], polyorder |-> sm[2]],
                   TempGrid(ne[1] + ne[2], 0), Series(ne[1], <<4, 8>>, 0))
     \/ \E ne \in OpPairs, shape \in Shapes :
          InitCall([op |-> "compute_derivative"],
                   TempGrid(ne[1] + ne[2], 0), Series(ne[1], shape, 0))
     \/ \E n \in OpLens, ln \in Lines : \E t \in OpGrids(n) :
          InitCall([op |-> "compute_derivative"], t, Line(t, ln))
     \/ \E ne \in OpPairs, rg \in OpRanges :
          InitCall([op |-> "fit_baseline", t_start |-> rg[1], t_end |-> rg[2]],
                   TempGrid(ne[1] + ne[2], 0), Series(ne[1], <<1, 6>>, 0))
     \/ \E n \in {10, MaxLen}, ln \in Lines, rg \in OpRanges, sp \in {0, 7, 9} :
        \E t \in OpGrids(n) :
          InitCall([op |-> "fit_baseline", t_start |-> rg[1], t_end |-> rg[2]],
                   t, Overwrite(Line(t, ln), sp, 1, SpikeValue))
     \/ \E ne \in OpPairs, de \in OpExtras, ix \in OpIndexes :
          /\ ne[1] + de >= 0
          /\ InitCall([op |-> "compute_tangent_at_point",
                       derivatives |-> [i \in 1..(ne[1] + de) |-> R(i)], index |-> ix],
                      TempGrid(ne[1] + ne[2], 0), Series(ne[1], <<1, 6>>, 0))
     \/ \E sp \in SlopePairs, i1 \in Intercepts, i2 \in Intercepts :
          InitCall([op |-> "find_intersection", slope1 |-> sp[1], intercept1 |-> i1,
                    slope2 |-> sp[2], intercept2 |-> i2],
                   <<>>, <<>>)
     \/ \E d \in DerivSeqs, off \in OpOffsets :
          InitCall([op |-> "find_max_slope_index", derivatives |-> d, offset |-> off],
                   <<>>, <<>>)
     \/ /\ \E n \in {9, MaxLen}, e \in {0, 1}, sp \in {0, 7} :
             InitArgs("direct", n, e, 0, <<4, 8>>, sp,
                      [low |-> <<1, 4>>, high |-> <<8, 12>>, smooth |-> <<3, 1>>,
                       offset |-> 0],
                      <<DefaultOutlierWindow, DefaultThreshold>>)
        /\ pc = "validate"

Return(r) ==
  /\ ret' = r
  /\ pc' = "returned"

CallRemoveOutliers ==
  /\ pc = "call"
  /\ call.op = "remove_outliers"
  /\ \E r \in {remove_outliers(temps, values, call.window, call.threshold,
                              call.max_iterations)} :
       /\ values' = r.values
       /\ Return([err |-> r.err, temps |-> r.temps, values |-> r.values_clean,
                  mask |-> r.mask])
  /\ UNCHANGED <<args, loop, session, locals, stages, error, result, returned>>

CallSmoothData ==
  /\ pc = "call"
  /\ call.op = "smooth_data"
  /\ \E r \in {smooth_data(temps, values, call.window_length, call.polyorder)} :
       Return(r)
  /\ UNCHANGED <<args, loop, session, values, locals, stages, error, result, returned>>

CallComputeDerivative ==
  /\ pc = "call"
  /\ call.op = "compute_derivative"
  /\ \E r \in {compute_derivative(temps, values)} : Return(r)
  /\ UNCHANGED <<args, loop, session, values, locals, stages, error, result, returned>>

CallFitBaseline ==
  /\ pc = "call"
  /\ call.op = "fit_baseline"
  /\ \E r \in {fit_baseline(temps, values, call.t_start, call.t_end)} : Return(r)
  /\ UNCHANGED <<args, loop, session, values, locals, stages, error, result, returned>>

CallComputeTangentAtPoint ==
  /\ pc = "call"
  /\ call.op = "compute_tangent_at_point"
  /\ \E r \in {compute_tangent_at_point(temps, values, call.derivatives, call.index)} :
       Return(r)
  /\ UNCHANGED <<args, loop, session, values, locals, stages, error, result, returned>>

CallFindMaxSlopeIndex ==
  /\ pc = "call"
  /\ call.op = "find_max_slope_index"
  /\ \E r \in {find_max_slope_index(call.derivatives, call.offset)} : Return(r)
  /\ UNCHANGED <<args, loop, session, values, locals, stages, error, result, returned>>

CallFindIntersection ==
  /\ pc = "call"
  /\ call.op = "find_intersection"
  /\ \E r \in {find_intersection(call.slope1, call.intercept1,
                                 call.slope2, call.intercept2)} : Return(r)
  /\ UNCHANGED <<args, loop, session, values, locals, stages, error, result, returned>>

NextOps ==
  \/ CallRemoveOutliers
  \/ CallSmoothData
  \/ CallComputeDerivative
  \/ CallFitBaseline
  \/ CallComputeTangentAtPoint
  \/ CallFindMaxSlopeIndex
  \/ CallFindIntersection
  \/ Validate
  \/ StageRemoveOutliers
  \/ StageSmooth
  \/ StageDerivative
  \/ StageMaxSlope
  \/ StageTangent
  \/ StageLowBaseline
  \/ StageHighBaseline
  \/ StageIntersect

SpecOps == InitOps /\ [][NextOps]_vars

(***************************************************************************)
(* Calls of remove_outliers on trend data (specification SpecOutliers):    *)
(* evenly spaced points on a line, a run of them overwritten by a spike or *)
(* dropout value, or every point displaced by a small noise.               *)
(***************************************************************************)
TrendLens == {MaxLen, MaxLen + 2, MaxLen + 4, MaxLen + 8}
Trends == {<<100, 0>>, <<100, 1>>, <<100, 5>>}
RunLens == 1..5
Overwrites == {0, 1000}

\* values = b + s * temps
Trend(n, tr) == [i \in 1..n |-> R(tr[1] + tr[2] * i)]

\* the starts of a run of k points that stays clear of the boundary margin of
\* the default window
RunStarts(n, k) ==
  LET b == Boundary(EffectiveWindow(RemoveOutliersDefaultWindow))
  IN  {p \in 1..n : b < p /\ p + k - 1 <= n - b}

\* a noise of period 7 and amplitude 1/2
NoisePattern == <<<<-1, 10>>, <<-1, 2>>, <<0, 1>>, <<1, 10>>, <<1, 2>>, <<1, 10>>, <<0, 1>>>>

Noisy(v) == [i \in 1..Len(v) |-> RAdd(v[i], NoisePattern[((i - 1) % 7) + 1])]

DefaultCall ==
  [op |-> "remove_outliers", window |-> RemoveOutliersDefaultWindow,
   threshold |-> DefaultThreshold, max_iterations |-> DefaultMaxIterations]

InitOutliers ==
  /\ InitLocals
  /\ \E n \in TrendLens, tr \in Trends :
       \/ \E k \in RunLens, z \in Overwrites : \E p \in RunStarts(n, k) :
            /\ tr[2] > 0
            /\ InitCall(DefaultCall, TempGrid(n, 0), Overwrite(Trend(n, tr), p, k, z))
       \/ InitCall(DefaultCall, TempGrid(n, 0), Trend(n, tr))
       \/ InitCall(DefaultCall, TempGrid(n, 0), Noisy(Trend(n, tr)))

NextOutliers == CallRemoveOutliers

SpecOutliers == InitOutliers /\ [][NextOutliers]_vars

(***************************************************************************)
(* remove_outliers pass by pass (specification SpecPasses): the for loop   *)
(* of lines 67-109 runs one iteration per step; loop holds the function's  *)
(* locals between iterations.                                              *)
(***************************************************************************)
PassMaxIterations == {1, DefaultMaxIterations}
PassRunLens == {1, 3, 5}
PassLens == {MaxLen + 2, MaxLen + 8}

InitPasses ==
  /\ InitLocals
  /\ \/ \E ne \in OpPairs, sp \in OpSpikeAt, w \in OpWindows, th \in OpThresholds,
           mi \in OpMaxIterations :
          InitCall([op |-> "remove_outliers", window |-> w, threshold |-> th,
                    max_iterations |-> mi],
                   TempGrid(ne[1] + ne[2], 0), Series(ne[1], <<4, 8>>, sp))
     \/ \E n \in PassLens, tr \in Trends, mi \in PassMaxIterations :
          \E c \in {[DefaultCall EXCEPT !.max_iterations = mi]} :
            \/ \E k \in PassRunLens, z \in Overwrites : \E p \in RunStarts(n, k) :
                 /\ tr[2] > 0
                 /\ InitCall(c, TempGrid(n, 0), Overwrite(Trend(n, tr), p, k, z))
            \/ InitCall(c, TempGrid(n, 0), Trend(n, tr))
            \/ InitCall(c, TempGrid(n, 0), Noisy(Trend(n, tr)))

\* lines 52-65: the checks, the adaptive window, the mask and the copy
BeginRemoveOutliers ==
  /\ pc = "call"
  /\ call.op = "remove_outliers"
  /\ IF Len(temps) # Len(values)
     THEN /\ Return([err |-> "LengthMismatch", temps |-> <<>>, values |-> <<>>,
                     mask |-> <<>>])
          /\ UNCHANGED loop
     ELSE IF TooShort(Len(values), call.window)
     THEN /\ Return([err |-> "ok", temps |-> temps, values |-> values,
                     mask |-> [i \in 1..Len(values) |-> FALSE]])
          /\ UNCHANGED loop
     ELSE /\ loop' = [at |-> "for", iteration |-> 0,
                      window |-> EffectiveWindow(call.window),
                      working_values |-> values,
                      combined_mask |-> ZeroMask(Len(values))]
          /\ pc' = "loop"
          /\ UNCHANGED ret
  /\ UNCHANGED <<args, session, values, locals, stages, error, result, returned>>

\* lines 67-109: one iteration of the for loop
OutlierIteration ==
  /\ pc = "loop"
  /\ LoopContinues(loop.iteration, call.max_iterations)
  /\ \E p \in {OutlierPass([values |-> values, working |-> loop.working_values,
                            mask |-> loop.combined_mask],
                           loop.window, call.threshold)} :
       /\ loop' = [at |-> IF p.stop THEN "break" ELSE "for",
                   iteration |-> loop.iteration + 1,
                   window |-> loop.window,
                   working_values |-> p.st.working,
                   combined_mask |-> p.st.mask,
                   pass |-> PassLocals([values |-> values,
                                        working |-> loop.working_values,
                                        mask |-> loop.combined_mask],
                                       loop.window, call.threshold)]
       /\ values' = p.st.values
       /\ pc' = IF p.stop THEN "exit" ELSE "loop"
  /\ UNCHANGED <<args, session, locals, outcome>>

\* line 111: return temps, working_values, combined_mask
EndRemoveOutliers ==
  /\ \/ pc = "exit"
     \/ pc = "loop" /\ ~LoopContinues(loop.iteration, call.max_iterations)
  /\ Return([err |-> "ok", temps |-> temps, values |-> loop.working_values,
             mask |-> loop.combined_mask])
  /\ UNCHANGED <<args, session, loop, values, locals, stages, error, result, returned>>

NextPasses ==
  \/ BeginRemoveOutliers
  \/ OutlierIteration
  \/ EndRemoveOutliers

SpecPasses == InitPasses /\ [][NextPasses]_vars

(***************************************************************************)
(* The Streamlit script (specification SpecUI): app.py runs from top to    *)
(* bottom once per user interaction; render_sidebar reads the widgets and  *)
(* updates st.session_state, display_analysis_section shows the analysis.  *)
(* session is the dictionary st.session_state, call the widget values of   *)
(* the run, ret what the run handed to the page.  The result of            *)
(* perform_analysis is kept as the inputs it was computed from.            *)
(***************************************************************************)
Has(s, k) == k \in DOMAIN s

Get(s, k, default) == IF Has(s, k) THEN s[k] ELSE default

Put(s, k, v) == [x \in DOMAIN s \cup {k} |-> IF x = k THEN v ELSE s[x]]

Del(s, k) == [x \in DOMAIN s \ {k} |-> s[x]]

PutIfAbsent(s, k, v) == IF Has(s, k) THEN s ELSE Put(s, k, v)

None == "None"

\* DEFAULT_WINDOW_LENGTH, DEFAULT_POLYORDER
DefaultWindowLength == 51

DefaultPolyorder == 3

\* the files a user may upload: load says what load_file and the checks
\* after it do with the file
NoUpload == [name |-> None, load |-> "none", channels |-> <<>>, t_min |-> 0, t_max |-> 0]

UiFiles ==
  {[name |-> "a.csv", load |-> "ok", channels |-> <<"Space1", "Space2">>,
    t_min |-> 0, t_max |-> 20],
   [name |-> "b.csv", load |-> "raises", channels |-> <<>>, t_min |-> 0, t_max |-> 0],
   [name |-> "c.csv", load |-> "ok", channels |-> <<"Space3">>,
    t_min |-> 0, t_max |-> 20],
   [name |-> "e.csv", load |-> "ok", channels |-> <<>>, t_min |-> 0, t_max |-> 20]}

\* a widget the user leaves alone gives the value it was drawn with; one the
\* user moves gives <<value>>
Keep == <<>>

Widgets ==
  [uploaded : UiFiles \cup {NoUpload},
   channel : {Keep, <<"Space2">>},
   smooth_window : {Keep, <<11>>},
   low_range : {Keep, <<<<0, 2>>>>},
   slope_offset : {Keep, <<1>>}]

Chosen(w, shown) == IF w = Keep THEN shown ELSE w[1]

Elements(q) == {q[i] : i \in 1..Len(q)}

\* sidebar.py lines 58-99: the file upload
HandleUpload(s, f) ==
  IF f.load = "none" THEN [session |-> s, ok |-> TRUE]
  ELSE IF Has(s, "uploaded_file_name") /\ s["uploaded_file_name"] = f.name
  THEN [session |-> s, ok |-> TRUE]
  ELSE
    LET s1 == Put(Put(s, "uploaded_file_name", f.name), "uploaded_file", f.name)
    IN  IF f.load = "raises" \/ f.channels = <<>>
        THEN [session |-> s1, ok |-> FALSE]
        ELSE [session |-> PutIfAbsent(Put(Put(s1, "df", [of |-> f.name,
                                                         t_min |-> f.t_min,
                                                         t_max |-> f.t_max]),
                                          "valid_channels", f.channels),
                                      "selected_channel", f.channels[1]),
              ok |-> TRUE]

\* sidebar.py lines 104-139: the channel selection
SelectChannel(s, w) ==
  IF Has(s, "valid_channels") /\ s["valid_channels"] # <<>>
  THEN LET options == s["valid_channels"]
           shown   == IF Has(s, "selected_channel")
                         /\ s["selected_channel"] \in Elements(options)
                      THEN s["selected_channel"] ELSE options[1]
           picked  == IF Chosen(w.channel, shown) \in Elements(options)
                      THEN Chosen(w.channel, shown) ELSE shown
       IN  [session |-> Put(Put(s, "channel_selector", picked),
                            "selected_channel", picked),
            ok |-> TRUE]
  ELSE [session |-> s, ok |-> FALSE]

\* sidebar.py lines 146-193: the smoothing parameters
SmoothingWidgets(s, w) ==
  LET s1 == PutIfAbsent(s, "smooth_window", DefaultWindowLength)
      smooth_window == Chosen(w.smooth_window, s1["smooth_window"])
      s2 == IF smooth_window # s1["smooth_window"]
            THEN Del(Put(s1, "smooth_window", smooth_window), "smoothed_data")
            ELSE s1
  IN  PutIfAbsent(s2, "smooth_polyorder", DefaultPolyorder)

\* a slider that clears the stored analysis when its value changes
\* (sidebar.py lines 244-248, 261-265, 278-282)
Slider(s, k, value) ==
  IF value # s[k] THEN Del(Put(s, k, value), "analysis_result") ELSE s

\* sidebar.py lines 203-282: the tangent parameters; the defaults are the
\* first and last 15% of the temperature range of the frame
TangentWidgets(s, w) ==
  LET df   == s["df"]
      span == ((df.t_max - df.t_min) * 15) \div 100
      s1 == PutIfAbsent(s, "low_temp_range", <<df.t_min, df.t_min + span>>)
      s2 == PutIfAbsent(s1, "high_temp_range", <<df.t_max - span, df.t_max>>)
      s3 == PutIfAbsent(s2, "slope_offset", 0)
      s4 == Slider(s3, "low_temp_range", Chosen(w.low_range, s3["low_temp_range"]))
      s5 == Slider(s4, "high_temp_range", s4["high_temp_range"])
  IN  Slider(s5, "slope_offset", Chosen(w.slope_offset, s5["slope_offset"]))

\* sidebar.py lines 332-339: the axis settings
AxisWidgets(s) ==
  PutIfAbsent(PutIfAbsent(PutIfAbsent(PutIfAbsent(s, "x_axis_tick", 0),
                                      "y_axis_tick", 0),
                          "x_axis_range", None),
              "y_axis_range", None)

\* render_sidebar(): the session after it, and what it returns
render_sidebar(s, w) ==
  LET up == HandleUpload(s, w.uploaded)
  IN  IF ~up.ok
      THEN [session |-> up.session, file_name |-> None, selected_channel |-> None]
      ELSE
        LET ch == SelectChannel(up.session, w)
        IN  IF ~ch.ok
            THEN [session |-> ch.session, file_name |-> None, selected_channel |-> None]
            ELSE
              LET s1 == AxisWidgets(TangentWidgets(SmoothingWidgets(ch.session, w), w))
              IN  [session |-> s1,
                   file_name |-> Get(s1, "uploaded_file_name", None),
                   selected_channel |-> Get(s1, "selected_channel", None)]

\* analysis_chart.py line 407
CacheKey(s, channel) ==
  "analysis_" \o channel
    \o "_" \o ToString(Get(s, "smooth_window", DefaultWindowLength))
    \o "_" \o ToString(Get(s, "smooth_polyorder", DefaultPolyorder))
    \o "_" \o ToString(Get(s, "low_temp_range", <<0, 0>>))
    \o "_" \o ToString(Get(s, "high_temp_range", <<0, 0>>))
    \o "_" \o ToString(Get(s, "slope_offset", 0))

\* what perform_analysis(df, channel) computes its result from
AnalysisOf(s, df, channel) ==
  [df |-> df.of, channel |-> channel,
   smooth_window |-> Get(s, "smooth_window", DefaultWindowLength),
   smooth_polyorder |-> Get(s, "smooth_polyorder", DefaultPolyorder),
   low_range |-> Get(s, "low_temp_range", <<0, 5>>),
   high_range |-> Get(s, "high_temp_range", <<20, 25>>),
   slope_offset |-> Get(s, "slope_offset", 0)]

\* display_analysis_section(df, channel), lines 402-414
display_analysis_section(s, df, channel) ==
  LET s1 == PutIfAbsent(s, "chart_zoom_state", None)
  IN  IF ~Has(s1, CacheKey(s1, channel)) \/ ~Has(s1, "analysis_result")
      THEN [session |-> Put(s1, "analysis_result", AnalysisOf(s1, df, channel)),
            performed |-> TRUE]
      ELSE [session |-> s1, performed |-> FALSE]

InitUI ==
  /\ InitLocals
  /\ caller = "streamlit"
  /\ call = NoCall
  /\ temps = <<>> /\ values = <<>> /\ values0 = <<>>
  /\ low_range = <<0, 0>> /\ high_range = <<0, 0>> /\ smooth_params = <<3, 1>>
  /\ slope_offset = 0
  /\ outlier_params = <<DefaultOutlierWindow, DefaultThreshold>>
  /\ ref = NoRef
  /\ pc = "app"

\* one run of app.py (lines 184-225)
Rerun ==
  /\ pc = "app"
  /\ \E w \in Widgets :
     \E sb \in {render_sidebar(session, w)} :
       /\ call' = [op |-> "app", widgets |-> w]
       /\ IF sb.file_name # None /\ sb.selected_channel # None
          THEN \E d \in {display_analysis_section(sb.session, sb.session["df"],
                                                  sb.selected_channel)} :
                 /\ session' = d.session
                 /\ ret' = [err |-> "ok", file_name |-> sb.file_name,
                            selected_channel |-> sb.selected_channel,
                            displayed |-> TRUE, performed |-> d.performed]
          ELSE /\ session' = sb.session
               /\ ret' = [err |-> "ok", file_name |-> sb.file_name,
                          selected_channel |-> sb.selected_channel,
                          displayed |-> FALSE, performed |-> FALSE]
  /\ UNCHANGED <<caller, temps, values0, low_range, high_range, smooth_params,
                 slope_offset, outlier_params, ref, values, pc, locals, loop, stages,
                 error, result, returned>>

NextUI == Rerun

SpecUI == InitUI /\ [][NextUI]_vars

(***************************************************************************)
(* Properties of one analysis run (specification Spec)                     *)
(***************************************************************************)
\* C1: a stage of analyze_channel that fails ends the call: the error it
\* raised is the one the caller sees and it never changes afterwards, the
\* stages executed are a prefix of the program order ending with the failing
\* stage (nothing retried, nothing run after it), and no result is returned.
C1_FailurePropagates ==
  /\ [](/\ stages = SubSeq(StageOrder, 1, Len(stages))
        /\ error # NoError =>
             /\ pc \in {"raised", "pa_failed"}
             /\ error.stage = stages[Len(stages)]
             /\ error.kind # "ok"
             /\ result = NoResult
             /\ returned \in {NotReturned, ReturnedNone})
  /\ [][error # NoError =>
          /\ error' = error
          /\ stages' = stages
          /\ result' = NoResult
          /\ locals' = locals]_vars

C1_Witness ==
  /\ pc = "pa_failed"
  /\ error = [stage |-> "smooth", kind |-> "InvalidParameter:window<=polyorder"]
  /\ stages = <<"validate", "remove_outliers", "smooth">>

\* C2 as stated: when the low or the high range selects fewer than two points
\* the caller still obtains a (partial) result.
C2_PartialResultOnBadRange ==
  (pc \in {"raised", "pa_failed"} /\ error.stage \in {"low_baseline", "high_baseline"})
    => (result # NoResult \/ returned.tag = "dict")

\* C2 amended: a range that selects no point, or one point, makes the baseline
\* fit raise EmptyRange, or InsufficientPoints; analyze_channel then returns
\* nothing and perform_analysis returns None.
C2_BadRangeFailsAnalysis ==
  LET lowN  == Cardinality({i \in 1..Len(temps) :
                              low_range[1] <= temps[i] /\ temps[i] <= low_range[2]})
      highN == Cardinality({i \in 1..Len(temps) :
                              high_range[1] <= temps[i] /\ temps[i] <= high_range[2]})
  IN  /\ Len(stages) >= 7 =>
           /\ lowN = 0 <=> error = [stage |-> "low_baseline", kind |-> "EmptyRange"]
           /\ lowN = 1 <=> error = [stage |-> "low_baseline", kind |-> "InsufficientPoints"]
      /\ Len(stages) >= 8 =>
           /\ highN = 0 <=> error = [stage |-> "high_baseline", kind |-> "EmptyRange"]
           /\ highN = 1 <=> error = [stage |-> "high_baseline", kind |-> "InsufficientPoints"]
      /\ error.stage \in {"low_baseline", "high_baseline"} =>
           /\ pc \in {"raised", "pa_failed"}
           /\ result = NoResult
           /\ returned \in {NotReturned, ReturnedNone}
           /\ pc = "pa_failed" => returned = ReturnedNone

C2_Witness ==
  /\ pc = "pa_failed"
  /\ error = [stage |-> "high_baseline", kind |-> "InsufficientPoints"]
  /\ low_baseline # NoLine

\* C3: a tangent parallel to a baseline does not make analyze_channel raise.
\* The intersect step always returns a result; in it a temperature is NaN when
\* the two slopes are equal and otherwise is the point where the two lines
\* cross, each of As and Af_tan on its own; max_slope_temp, the three lines
\* and the outlier count are populated.
C3_ParallelGivesSentinel ==
  /\ [](result.tag = "result" =>
          LET tg == result.tangent
              lo == result.low_baseline
              hi == result.high_baseline
          IN  /\ error = NoError
              /\ tg.slope = lo.slope => IsNaN(result.As)
              /\ tg.slope = hi.slope => IsNaN(result.Af_tan)
              /\ ~IsNaN(result.As) =>
                   RAdd(RMul(tg.slope, result.As), tg.intercept)
                     = RAdd(RMul(lo.slope, result.As), lo.intercept)
              /\ ~IsNaN(result.Af_tan) =>
                   RAdd(RMul(tg.slope, result.Af_tan), tg.intercept)
                     = RAdd(RMul(hi.slope, result.Af_tan), hi.intercept)
              /\ \E i \in 1..Len(temps) : temps[i] = result.max_slope_temp
              /\ \A l \in {tg, lo, hi} : ~IsNaN(l.slope) /\ ~IsNaN(l.intercept)
              /\ result.outlier_count
                   = Cardinality({i \in 1..Len(outlier_mask) : outlier_mask[i]}))
  /\ [][pc = "intersect" => (pc' = "done" /\ result'.tag = "result" /\ error' = NoError)]_vars

C3_Witness ==
  /\ result.tag = "result"
  /\ IsNaN(result.As)
  /\ ~IsNaN(result.Af_tan)

\* C4: in the dict perform_analysis returns, outlier_count is the number of
\* true entries of the outlier_mask attached to it.
C4_CountMatchesMask ==
  pc = "pa_done" =>
    returned.analysis.outlier_count
      = Cardinality({i \in 1..Len(returned.outlier_mask) : returned.outlier_mask[i]})

C4_Witness ==
  /\ pc = "pa_done"
  /\ returned.analysis.outlier_count > 0

\* C5: the cleaned and the smoothed series have the length of the input
\* series and carry the input temperatures unchanged, in analyze_channel and
\* in the plotting data of perform_analysis.
C5_LengthsPreserved ==
  /\ (Len(stages) >= 2 /\ error.stage # "remove_outliers") =>
       /\ Len(values_clean) = Len(values0)
       /\ temps_clean = temps
  /\ (Len(stages) >= 3 /\ error.stage # "smooth") =>
       /\ Len(values_smooth) = Len(values0)
       /\ temps_smooth = temps
  /\ pc = "pa_done" =>
       /\ Len(returned.values_smooth) = Len(values0)
       /\ returned.temps_smooth = temps

C5_Witness ==
  /\ pc = "done"
  /\ outlier_count > 0
  /\ values_clean # values0
  /\ values_smooth # values_clean

\* C8: with arrays of equal length, analyze_channel raises InsufficientPoints
\* in its validation, before any stage, exactly when there are fewer than 10
\* points.
C8_TenPointsRequired ==
  (Len(stages) >= 1 /\ Len(temps) = Len(values0)) =>
    /\ Len(temps) < 10 <=> error = [stage |-> "validate", kind |-> "InsufficientPoints"]
    /\ Len(temps) < 10 =>
         /\ stages = <<"validate">>
         /\ pc \in {"raised", "pa_failed"}
         /\ result = NoResult
         /\ values_clean = Unset /\ values_smooth = Unset /\ derivatives = Unset

C8_Witness ==
  /\ pc = "raised"
  /\ error = [stage |-> "validate", kind |-> "InsufficientPoints"]
  /\ Len(temps) = 9
  /\ smooth_params = <<51, 3>>

\* C26: the plotting data of perform_analysis is that of the analysis: the
\* cleaned series, the outlier mask and the smoothed series it recomputes with
\* the default window 11 of remove_outliers are the ones analyze_channel
\* derived with its default window 5.
C26_PlotDataIsAnalysisData ==
  (pc = "pa_done" /\ Len(temps) >= MinPoints)
    => /\ returned.outlier_mask = outlier_mask
       /\ returned.temps_smooth = temps_smooth
       /\ returned.values_smooth = values_smooth
       /\ remove_outliers(temps, values0, RemoveOutliersDefaultWindow, DefaultThreshold,
                          DefaultMaxIterations).values_clean = values_clean

C26_Witness ==
  /\ pc = "pa_done"
  /\ outlier_params[1] = DefaultOutlierWindow
  /\ outlier_count > 0
  /\ \E i \in 1..Len(values0) : values_clean[i] # values0[i]
  /\ returned.outlier_mask = outlier_mask
  /\ returned.values_smooth = values_smooth

StageDone(stage) == \E k \in 1..Len(stages) : stages[k] = stage

\* C28: inside analyze_channel the tangent stage never fails: the index of
\* the maximum slope lies in [0, n-1] of the smoothed series, the temperature,
\* smoothed-value and derivative sequences have the same length n, the tangent
\* passes through the smoothed curve at that index, and max_slope_temp is one
\* of the input temperatures.
C28_TangentStageNeverFails ==
  /\ error.stage # "tangent"
  /\ StageDone("max_slope")
       => /\ error.stage # "max_slope"
          /\ Len(values_smooth) = Len(temps_smooth)
          /\ Len(derivatives) = Len(temps_smooth)
          /\ 0 <= max_slope_idx /\ max_slope_idx <= Len(temps_smooth) - 1
  /\ StageDone("tangent")
       => /\ ~IsNaN(tangent.slope)
          /\ RAdd(RMul(tangent.slope, R(temps_smooth[max_slope_idx + 1])),
                  tangent.intercept) = values_smooth[max_slope_idx + 1]
  /\ pc = "done"
       => \E i \in 1..Len(temps) : result.max_slope_temp = temps[i]

C28_Witness ==
  /\ pc = "done"
  /\ slope_offset = 20
  /\ max_slope_idx = Len(temps) - 1
  /\ result.max_slope_temp = temps[Len(temps)]
  /\ result.tangent = tangent

(***************************************************************************)
(* Properties of repeated calls (specification SpecReentrant)              *)
(***************************************************************************)
\* C6: a call of analyze_channel that ends has the outcome (the same error,
\* or the same result field by field) of every earlier call made with the
\* same arguments, whatever calls were made in between.
C6_SameInputsSameOutcome ==
  (pc \in {"done", "raised"} /\ ref.tag = "call" /\ ref.args = CurArgs)
    => (ref.error = error /\ ref.result = result)

C6_Witness ==
  /\ pc = "done"
  /\ ref.tag = "call"
  /\ ref.args = CurArgs
  /\ result.outlier_count > 0
  /\ ref.result.outlier_count > 0

\* C7: the caller's value array holds the contents it had when the call began,
\* at every point of every call, whether the call returns or raises; outliers
\* are replaced in the copy only.
C7_InputsUntouched == values = values0

C7_Witness ==
  /\ pc = "done"
  /\ ref.tag = "call"
  /\ outlier_count > 0
  /\ values_clean # values
  /\ values = values0

(***************************************************************************)
(* Properties of direct calls (specification SpecOps)                      *)
(***************************************************************************)
OpEnded == pc = "returned" \/ (caller = "direct" /\ pc \in {"done", "raised"})

\* C9: each of remove_outliers, smooth_data, compute_derivative, fit_baseline,
\* compute_tangent_at_point and analyze_channel, called with temperature and
\* value sequences of different lengths, ends with the length-mismatch error.
C9_MismatchSignalled ==
  (OpEnded /\ Len(temps) # Len(values0))
    => IF caller = "direct"
       THEN error = [stage |-> "validate", kind |-> "LengthMismatch"]
       ELSE ret.err = "LengthMismatch"

\* C10: remove_outliers, given fewer points than the effective window plus two,
\* returns the temperatures and the values as given and a mask with no true
\* entry, for every threshold and every iteration limit.
C10_ShortSeriesUnmodified ==
  (/\ pc = "returned"
   /\ call.op = "remove_outliers"
   /\ Len(temps) = Len(values0)
   /\ Len(values0) < EffectiveWindow(call.window) + 2)
    => /\ ret.err = "ok"
       /\ ret.temps = temps
       /\ ret.values = values0
       /\ \A i \in 1..Len(ret.mask) : ~ret.mask[i]

SmoothReturned ==
  /\ pc = "returned"
  /\ call.op = "smooth_data"
  /\ Len(temps) = Len(values0)

InvalidParameter(err) ==
  err \in {"InvalidParameter:window<=polyorder", "InvalidParameter:window>length"}

\* C13: a call of smooth_data with an even window_length w has the outcome of
\* the call with w + 1 on the same series and polynomial order: the same
\* error, or the same temperatures and smoothed values.
C13_EvenWindowIsNextOdd ==
  (pc = "returned" /\ call.op = "smooth_data" /\ call.window_length % 2 = 0)
    => ret = smooth_data(temps, values0, call.window_length + 1, call.polyorder)

C13_Witness ==
  /\ SmoothReturned
  /\ call.window_length % 2 = 0
  /\ ret.err = "ok"
  /\ ret.values # values0
  /\ ret = smooth_data(temps, values0, call.window_length + 1, call.polyorder)

\* C14 as stated: on a non-empty series smooth_data fails with the
\* invalid-parameter error whenever the window_length given is at most the
\* polynomial order or exceeds the number of points.
C14_GivenWindowRejected ==
  (/\ SmoothReturned
   /\ Len(values0) > 0
   /\ \/ call.window_length <= call.polyorder
      \/ call.window_length > Len(values0))
    => InvalidParameter(ret.err)

\* C14, amended: on a non-empty series smooth_data fails with the
\* invalid-parameter error exactly when the window_length, after an even value
\* is raised to the next odd one, is at most the polynomial order or exceeds
\* the number of points; otherwise it returns one smoothed value per point.
C14_CorrectedWindowRejected ==
  (SmoothReturned /\ Len(values0) > 0)
    => LET w == IF call.window_length % 2 = 0 THEN call.window_length + 1
                ELSE call.window_length
       IN  IF w <= call.polyorder \/ w > Len(values0)
           THEN InvalidParameter(ret.err) /\ ret.values = <<>>
           ELSE ret.err = "ok" /\ Len(ret.values) = Len(values0) /\ ret.temps = temps

C14_Witness ==
  /\ SmoothReturned
  /\ Len(values0) > 0
  /\ call.window_length = Len(values0)
  /\ call.window_length > call.polyorder
  /\ ret.err = "InvalidParameter:window>length"

\* C15: on two or more points of a line value = m * t + b, whatever the
\* spacing of the ascending temperatures, compute_derivative returns one
\* derivative per point and m at every interior point; on fewer than two points
\* it signals InsufficientPoints.
C15_DerivativeOfLine ==
  (pc = "returned" /\ call.op = "compute_derivative" /\ Len(temps) = Len(values0))
    => IF Len(temps) < 2 THEN ret.err = "InsufficientPoints"
       ELSE \A ln \in Lines :
              values0 = Line(temps, ln)
                => /\ ret.err = "ok"
                   /\ Len(ret.derivatives) = Len(values0)
                   /\ \A i \in 2..(Len(values0) - 1) : ret.derivatives[i] = ln.m

C15_Witness ==
  /\ pc = "returned"
  /\ call.op = "compute_derivative"
  /\ Len(temps) >= 5
  /\ \E i \in 2..(Len(temps) - 1) : temps[i + 1] - temps[i] # temps[i] - temps[i - 1]
  /\ values0 = Line(temps, [m |-> <<1, 2>>, b |-> 5])
  /\ ret.err = "ok"
  /\ \A i \in 2..(Len(temps) - 1) : ret.derivatives[i] = <<1, 2>>

\* C16: on a non-empty derivative sequence of length n, find_max_slope_index
\* returns min(n - 1, max(0, i + offset)), i being the first index (from 0)
\* where the absolute derivative is largest, hence an index of the sequence;
\* on the empty sequence it signals an error.
C16_MaxSlopeIndexClipped ==
  (pc = "returned" /\ call.op = "find_max_slope_index")
    => LET d == call.derivatives
           n == Len(d)
       IN  IF n = 0 THEN ret.err = "EmptyInput"
           ELSE /\ ret.err = "ok"
                /\ ret.idx \in 0..(n - 1)
                /\ \E i \in 0..(n - 1) :
                     /\ \A j \in 1..n : RLe(RAbs(d[j]), RAbs(d[i + 1]))
                     /\ \A j \in 1..i : RLt(RAbs(d[j]), RAbs(d[i + 1]))
                     /\ ret.idx = IMin(n - 1, IMax(0, i + call.offset))

C16_Witness ==
  /\ pc = "returned"
  /\ call.op = "find_max_slope_index"
  /\ call.derivatives = <<R(1), R(-2), <<3, 2>>>>
  /\ call.offset = -1
  /\ ret = [err |-> "ok", idx |-> 0]

FitReturned ==
  /\ pc = "returned"
  /\ call.op = "fit_baseline"
  /\ Len(temps) = Len(values0)

Selected == {i \in 1..Len(temps) : call.t_start <= temps[i] /\ temps[i] <= call.t_end}

\* C17: fit_baseline selects the points with t_start <= t <= t_end, and the
\* number selected decides its outcome: none is EmptyRange, one is
\* InsufficientPoints, two or more give a line; the two errors differ.
C17_OutcomeByPointsInRange ==
  FitReturned
    => /\ Cardinality(Selected) = 0 => ret.err = "EmptyRange"
       /\ Cardinality(Selected) = 1 => ret.err = "InsufficientPoints"
       /\ Cardinality(Selected) >= 2
            => ret.err = "ok" /\ ~IsNaN(ret.line.slope) /\ ~IsNaN(ret.line.intercept)
       /\ ret.err \in {"EmptyRange", "InsufficientPoints"} => ret.line = NoLine

C17_Witness ==
  /\ FitReturned
  /\ Cardinality(Selected) = 2
  /\ \E i \in Selected : temps[i] = call.t_start
  /\ \E i \in Selected : temps[i] = call.t_end
  /\ ret.err = "ok"

\* C18: the line of fit_baseline is the least-squares line of the selected
\* points: it is (a, b) when they lie on value = a * t + b, and it is the same
\* whatever values the points outside the range have.
C18_LineOfSelectedPoints ==
  (FitReturned /\ Cardinality(Selected) >= 2)
    => /\ \A ln \in Lines :
            (\A i \in Selected : values0[i] = Line(temps, ln)[i])
              => ret.line = [slope |-> ln.m, intercept |-> R(ln.b)]
       /\ \A z \in {0, SpikeValue} :
            ret = fit_baseline(temps,
                               [i \in 1..Len(values0) |->
                                  IF i \in Selected THEN values0[i] ELSE R(z)],
                               call.t_start, call.t_end)

C18_Witness ==
  /\ FitReturned
  /\ Cardinality(Selected) >= 3
  /\ \E i \in 1..Len(values0) : i \notin Selected /\ values0[i] = R(SpikeValue)
  /\ \A i \in Selected : values0[i] = Line(temps, [m |-> <<1, 2>>, b |-> 5])[i]
  /\ ret.line = [slope |-> <<1, 2>>, intercept |-> R(5)]

TangentReturned ==
  /\ pc = "returned"
  /\ call.op = "compute_tangent_at_point"
  /\ Len(temps) = Len(values0)
  /\ Len(temps) = Len(call.derivatives)

\* C19: for three sequences of equal length n, compute_tangent_at_point at an
\* index in [0, n-1] returns slope = derivative[index] and intercept =
\* value[index] - slope * temperature[index], a line through the point; every
\* other index, negative ones included, gives OutOfBounds.
C19_TangentThroughPoint ==
  TangentReturned
    => LET n  == Len(temps)
           ix == call.index
       IN  /\ (0 <= ix /\ ix <= n - 1)
                => /\ ret.err = "ok"
                   /\ ret.line.slope = call.derivatives[ix + 1]
                   /\ ret.line.intercept
                        = RSub(values0[ix + 1],
                               RMul(call.derivatives[ix + 1], R(temps[ix + 1])))
                   /\ RAdd(RMul(ret.line.slope, R(temps[ix + 1])), ret.line.intercept)
                        = values0[ix + 1]
           /\ (ix < 0 \/ ix > n - 1)
                => ret.err = "OutOfBounds" /\ ret.line = NoLine

C19_Witness ==
  /\ TangentReturned
  /\ Len(temps) >= 10
  /\ call.index = Len(temps) - 1
  /\ ret.err = "ok"
  /\ ret.line.slope = R(Len(temps))

IntersectionReturned ==
  /\ pc = "returned"
  /\ call.op = "find_intersection"

\* C20: find_intersection always returns: the undefined value exactly when
\* the two slopes are numerically equal, whatever the intercepts, and
\* otherwise x = (intercept2 - intercept1) / (slope1 - slope2), where the two
\* lines have the same value.
C20_IntersectionOrUndefined ==
  IntersectionReturned
    => /\ IsNaN(ret) <=> IsClose(call.slope1, call.slope2)
       /\ ~IsClose(call.slope1, call.slope2)
            => /\ ret = RDiv(RSub(call.intercept2, call.intercept1),
                             RSub(call.slope1, call.slope2))
               /\ RMul(ret, RSub(call.slope1, call.slope2))
                    = RSub(call.intercept2, call.intercept1)

C20_Witness ==
  /\ IntersectionReturned
  /\ call.slope1 = R(2) /\ call.intercept1 = R(10)
  /\ call.slope2 = R(-1) /\ call.intercept2 = R(25)
  /\ ret = R(5)

\* C29: find_intersection gives the same outcome when its two lines are
\* exchanged: the same temperature, or undefined in both orders.
C29_SymmetricInItsLines ==
  IntersectionReturned
    => ret = find_intersection(call.slope2, call.intercept2,
                               call.slope1, call.intercept1)

(***************************************************************************)
(* Properties of remove_outliers on trend data (specification SpecOutliers) *)
(***************************************************************************)
RunCases ==
  {c \in [tr : {t \in Trends : t[2] > 0}, k : RunLens, z : Overwrites, p : 1..Len(values0)] :
     /\ c.p \in RunStarts(Len(values0), c.k)
     /\ values0 = Overwrite(Trend(Len(values0), c.tr), c.p, c.k, c.z)}

InRun(c, i) == c.p <= i /\ i < c.p + c.k

\* the run is a minority of the points inside the boundary margin
RunIsMinority(c) == Len(values0) >= 2 * c.k + EffectiveWindow(call.window)

\* every overwritten value is farther from the trend than the whole rise of the
\* trend and than 30 steps of it plus 5
FarFromTrend(c) ==
  \A i \in c.p..(c.p + c.k - 1) :
    LET dev == IAbs(c.z - (c.tr[1] + c.tr[2] * i))
    IN  dev > c.tr[2] * (Len(values0) - 1) /\ dev > 30 * c.tr[2] + 5

NoneFlagged ==
  /\ ret.err = "ok"
  /\ \A i \in 1..Len(ret.mask) : ~ret.mask[i]
  /\ ret.values = values0
  /\ ret.temps = temps

Monotone(v) ==
  \/ \A i \in 1..(Len(v) - 1) : RLe(v[i], v[i + 1])
  \/ \A i \in 1..(Len(v) - 1) : RLe(v[i + 1], v[i])

\* C12 as stated: on a line, and on a line whose points are each displaced by
\* a noise of at most 1/2, remove_outliers flags nothing and returns the values
\* it was given.
C12_LinearNeverFlagged ==
  (/\ pc = "returned"
   /\ call.op = "remove_outliers"
   /\ \E tr \in Trends : values0 \in {Trend(Len(values0), tr),
                                      Noisy(Trend(Len(values0), tr))})
    => NoneFlagged

\* C12, amended: on a series whose values never decrease, or never increase
\* (a line, or a line with a noise that keeps the order of the points),
\* remove_outliers flags nothing and returns the values it was given.
C12_MonotoneNeverFlagged ==
  (pc = "returned" /\ call.op = "remove_outliers" /\ Monotone(values0))
    => NoneFlagged

C12_Witness ==
  /\ pc = "returned"
  /\ call.op = "remove_outliers"
  /\ values0 = Noisy(Trend(Len(values0), <<100, 1>>))
  /\ values0 # Trend(Len(values0), <<100, 1>>)
  /\ Monotone(values0)
  /\ NoneFlagged

(***************************************************************************)
(* Properties of the passes of remove_outliers (specification SpecPasses)  *)
(***************************************************************************)
InLoop == loop.at # "none"

PassMade == InLoop /\ loop.iteration > 0

Flagged(mask) == {i \in 1..Len(mask) : mask[i]}

\* C22: the detection loop makes at most max_iterations passes and none after
\* the first pass that finds no new outlier; from pass to pass the running
\* mask only grows, what a pass adds is disjoint from what was flagged before
\* it, and the returned mask is the running mask.
C22_BoundedAccumulateLoop ==
  /\ [](InLoop
          => /\ loop.iteration <= call.max_iterations
             /\ (PassMade /\ loop.pass.new_mask = {}) => loop.at = "break"
             /\ loop.at = "break" => pc \in {"exit", "returned"}
             /\ (pc = "returned" /\ ret.err = "ok") => ret.mask = loop.combined_mask)
  /\ [][(InLoop /\ loop'.at # "none")
          => /\ Flagged(loop.combined_mask) \subseteq Flagged(loop'.combined_mask)
             /\ loop.at = "break" => loop' = loop
             /\ loop' # loop
                  => /\ loop'.iteration = loop.iteration + 1
                     /\ loop'.pass.new_mask \cap Flagged(loop.combined_mask) = {}
                     /\ Flagged(loop'.combined_mask)
                          = Flagged(loop.combined_mask) \cup loop'.pass.new_mask]_vars

C22_Witness ==
  /\ pc = "returned"
  /\ loop.at = "break"
  /\ loop.iteration = DefaultMaxIterations
  /\ loop.pass.new_mask = {}
  /\ Cardinality(Flagged(ret.mask)) >= 5

Unflagged == {i \in 1..Len(loop.combined_mask) : ~loop.combined_mask[i]}

\* the nearest unflagged positions on either side of position i
Below(i) == CHOOSE a \in Unflagged : a < i /\ \A j \in Unflagged : j < i => j <= a

Above(i) == CHOOSE b \in Unflagged : b > i /\ \A j \in Unflagged : j > i => b <= j

\* C23: after every pass of remove_outliers and at return, an unflagged
\* position holds its input value and a flagged one holds the linear
\* interpolation, over the positions, of the input values at its nearest
\* unflagged neighbours, a value between those two.
C23_ReplacedByInterpolation ==
  InLoop
    => /\ \A i \in Unflagged : loop.working_values[i] = values0[i]
       /\ \A i \in Flagged(loop.combined_mask) :
            /\ \E a \in Unflagged : a < i
            /\ \E b \in Unflagged : b > i
            /\ loop.working_values[i]
                 = RAdd(values0[Below(i)],
                        RMul(RSub(values0[Above(i)], values0[Below(i)]),
                             Norm(i - Below(i), Above(i) - Below(i))))
            /\ RLe(RMin(values0[Below(i)], values0[Above(i)]), loop.working_values[i])
            /\ RLe(loop.working_values[i], RMax(values0[Below(i)], values0[Above(i)]))
       /\ (pc = "returned" /\ ret.err = "ok") => ret.values = loop.working_values

C23_Witness ==
  /\ pc = "loop"
  /\ loop.iteration = 2
  /\ Cardinality(Flagged(loop.combined_mask)) = 5
  /\ Cardinality(loop.pass.new_mask) = 4
  /\ \A i \in Flagged(loop.combined_mask) :
       /\ values0[i] = R(0)
       /\ loop.working_values[i] = R(100 + 5 * i)

\* max(window // 2, 3) of the window the passes run with (of the window as
\* given when the call returns before its loop)
Margin == IMax((IF InLoop THEN loop.window ELSE call.window) \div 2, 3)

AtBoundary(n) == {i \in 1..n : i <= Margin \/ i > n - Margin}

FlaggedBeforePass == Flagged(loop.combined_mask) \ loop.pass.new_mask

\* the positions whose deviation may enter the scale estimate of the pass
Surviving ==
  {i \in 1..Len(loop.pass.deviations) :
     /\ i \notin AtBoundary(Len(loop.pass.deviations))
     /\ i \notin FlaggedBeforePass
     /\ ~IsNaN(loop.pass.deviations[i])}

\* C24: no pass of remove_outliers flags a position within max(window/2, 3)
\* of either end, so the returned mask is false there and the returned values
\* are the inputs there; the MAD of a pass is the median of the deviations at
\* positions that are neither at the boundary nor flagged before the pass.
C24_BoundaryNeverFlagged ==
  /\ InLoop
       => /\ Flagged(loop.combined_mask) \cap AtBoundary(Len(loop.combined_mask)) = {}
          /\ PassMade
               => /\ loop.pass.new_mask \cap AtBoundary(Len(loop.combined_mask)) = {}
                  /\ loop.pass.inner_mask \cap AtBoundary(Len(loop.combined_mask)) = {}
                  /\ loop.pass.inner_mask \cap FlaggedBeforePass = {}
                  /\ IF Surviving = {} THEN IsNaN(loop.pass.median)
                     ELSE loop.pass.median
                            = Median([k \in 1..Cardinality(Surviving) |->
                                        loop.pass.deviations[SetToSeq(Surviving)[k]]])
  /\ (pc = "returned" /\ call.op = "remove_outliers" /\ ret.err = "ok")
       => \A i \in AtBoundary(Len(ret.mask)) :
            ~ret.mask[i] /\ ret.values[i] = values0[i]

C24_Witness ==
  /\ pc = "returned"
  /\ PassMade
  /\ loop.iteration >= 2
  /\ Margin = 5
  /\ Margin + 1 \in Flagged(ret.mask)
  /\ FlaggedBeforePass # {}
  /\ \E i \in AtBoundary(Len(ret.mask)) : loop.pass.deviations[i] # R(0)

\* largest value minus smallest value
RangeOf(wv) ==
  CHOOSE r \in {RSub(wv[i], wv[j]) : i, j \in 1..Len(wv)} :
    \A i, j \in 1..Len(wv) : RLe(RSub(wv[i], wv[j]), r)

\* max(1% of the value range, 1.0)
SubstituteScale(wv) == RMax(RDiv(RangeOf(wv), R(100)), R(1))

\* the positions with a deviation above threshold * scale, boundary and
\* earlier flags left out
AboveScale(dev, mask, threshold, scale) ==
  {i \in 1..Len(dev) : /\ i \notin AtBoundary(Len(dev))
                       /\ ~mask[i]
                       /\ ~IsNaN(dev[i])
                       /\ RLt(RMul(threshold, scale), dev[i])}

\* C25: in a pass where the MAD is zero the scale is max(1% of the value
\* range, 1.0) and the pass flags exactly the eligible positions whose
\* deviation is strictly above threshold times it; a pass where no deviation
\* survives flags nothing, as the substitute scale would.
C25_SubstituteScale ==
  [][(InLoop /\ loop'.at # "none" /\ loop' # loop)
       => /\ loop'.pass.median = R(0)
               => /\ loop'.pass.mad = SubstituteScale(loop.working_values)
                  /\ loop'.pass.new_mask
                       = AboveScale(loop'.pass.deviations, loop.combined_mask, call.threshold,
                                SubstituteScale(loop.working_values))
          /\ IsNaN(loop'.pass.median)
               => /\ loop'.pass.new_mask = {}
                  /\ loop'.combined_mask = loop.combined_mask
                  /\ AboveScale(loop'.pass.deviations, loop.combined_mask, call.threshold,
                            SubstituteScale(loop.working_values)) = {}]_vars

C25_Witness ==
  /\ PassMade
  /\ loop.pass.median = R(0)
  /\ RLt(R(1), loop.pass.mad)
  /\ loop.pass.new_mask # {}
  /\ \E i \in 1..Len(loop.pass.deviations) :
       /\ i \notin AtBoundary(Len(loop.pass.deviations))
       /\ i \notin Flagged(loop.combined_mask)
       /\ RLt(R(0), loop.pass.deviations[i])

(***************************************************************************)
(* Properties of the Streamlit script (specification SpecUI)               *)
(***************************************************************************)
\* the stored analysis was computed for this channel and these parameters
SameInputs(stored, s, channel) ==
  /\ stored.channel = channel
  /\ stored.smooth_window = s["smooth_window"]
  /\ stored.smooth_polyorder = s["smooth_polyorder"]
  /\ stored.low_range = s["low_temp_range"]
  /\ stored.high_range = s["high_temp_range"]
  /\ stored.slope_offset = s["slope_offset"]

\* C27: a run of the script that shows the analysis section for the channel
\* and the parameters the stored analysis result was computed with reuses
\* that result: perform_analysis is not called again.
C27_ReusesStoredAnalysis ==
  [][(/\ Has(session, "analysis_result")
      /\ ret'.displayed
      /\ SameInputs(session["analysis_result"], session', ret'.selected_channel))
     => ~ret'.performed]_vars

FileNamed(name) == CHOOSE f \in UiFiles : f.name = name

\* C30: the file name held in the session, and the one render_sidebar
\* returns, is the name of the file whose data is in the session DataFrame
\* and valid-channel list, also after a newly uploaded file failed to load.
C30_SessionNamesLoadedFile ==
  (pc = "app" /\ Has(session, "uploaded_file_name") /\ Has(session, "df"))
    => /\ session["df"].of = session["uploaded_file_name"]
       /\ session["valid_channels"] = FileNamed(session["uploaded_file_name"]).channels
       /\ (ret.err = "ok" /\ ret.file_name # None)
            => ret.file_name = session["df"].of

=============================================================================
